---- MODULE Spec2Model ----
(***************************************************************************)
(* Model of the real-time relay engine of sackio/phony: the command        *)
(* protocol (commands.py), the per-call event bus (events.py), the model   *)
(* session and the two per-call tasks of proxy_call (backend/openai_ws.py),*)
(* the telephony-side interceptor (backend/relay_ws.py) and the supervisor *)
(* override endpoints (backend/override_api.py).                           *)
(*                                                                         *)
(* Python values are modelled as follows.  A text is a sequence of symbols *)
(* (the brackets, the colon and the blank are symbols of their own, a word *)
(* is one symbol).  An optional value (a missing dict key, None) is a      *)
(* sequence of length 0 or 1.  A coroutine is cut at the awaits at which   *)
(* it can really be suspended (socket sends, the executor); awaiting       *)
(* Queue.put on an unbounded asyncio.Queue never suspends.                 *)
(***************************************************************************)
EXTENDS Integers, Sequences, FiniteSets, TLC

\* ------------------------------------------------------------------ bounds
MaxOv == 2
MaxSteps == 4
MaxBusOps == 4
MaxReaders == 2
MaxPieces == 3
MaxTenantOps == 5
MaxConcurrent == 1

\* ------------------------------------------------------------- Python bits
None == <<>>
Some(v) == <<v>>
IsNone(o) == o = <<>>
\* dict.get(key, default) on an optional value
GetOr(o, default) == IF o = <<>> THEN default ELSE o[1]

\* ------------------------------------------------------------ commands.py
\* str.lower() on one symbol
LowerSym(c) ==
    CASE c = "PRESS" -> "press"
      [] c = "TRANSFER" -> "transfer"
      [] c = "END_CALL" -> "end_call"
      [] c = "REQUEST_USER" -> "request_user"
      [] OTHER -> c

Lower(s) == [i \in 1..Len(s) |-> LowerSym(s[i])]

\* str.strip(): drop leading and trailing blanks
RECURSIVE LStrip(_)
LStrip(s) == IF s # <<>> /\ Head(s) = " " THEN LStrip(Tail(s)) ELSE s

RECURSIVE RStrip(_)
RStrip(s) == IF s # <<>> /\ s[Len(s)] = " " THEN RStrip(SubSeq(s, 1, Len(s) - 1)) ELSE s

Strip(s) == RStrip(LStrip(s))

\* positions at which "[[" opens and a later "]]" closes: where _COMMAND_RE can match
OpensAt(text, i) == i + 1 <= Len(text) /\ text[i] = "[" /\ text[i + 1] = "["
ClosesAt(text, j) == j + 1 <= Len(text) /\ text[j] = "]" /\ text[j + 1] = "]"
MatchStarts(text) ==
    {i \in 1..Len(text) : OpensAt(text, i) /\ \E j \in (i + 2)..Len(text) : ClosesAt(text, j)}

Min(S) == CHOOSE x \in S : \A y \in S : x <= y

\* _COMMAND_RE.search(text).group(1): leftmost match, lazy body
CommandReSearch(text) ==
    IF MatchStarts(text) = {} THEN None
    ELSE LET i == Min(MatchStarts(text))
             j == Min({k \in (i + 2)..Len(text) : ClosesAt(text, k)})
         IN  Some(SubSeq(text, i + 2, j - 1))

ColonAt(token) == {k \in 1..Len(token) : token[k] = ":"}

\* token.split(":", 1) / the else branch, then action.lower()
SplitToken(token) ==
    IF ColonAt(token) # {}
    THEN LET k == Min(ColonAt(token))
         IN  [action |-> Lower(SubSeq(token, 1, k - 1)),
              value |-> Some(SubSeq(token, k + 1, Len(token)))]
    ELSE [action |-> Lower(token), value |-> None]

\* a variant of the next definition with the action of [[request_user:...]] in it
KnownActionsWithRequestUser == {<<"press">>, <<"transfer">>, <<"end_call">>, <<"request_user">>}
KnownActions == {<<"press">>, <<"transfer">>, <<"end_call">>}

\* detect_command: an optional Command [action, value]
detect_command(text) ==
    IF text = <<>> THEN None
    ELSE LET m == CommandReSearch(text)
         IN  IF IsNone(m) THEN None
             ELSE LET c == SplitToken(Strip(m[1]))
                  IN  IF c.action \in KnownActions
                      THEN Some([action |-> c.action[1], value |-> c.value])
                      ELSE None

\* --------------------------------------------------------------- the model
CallIds == {"CA1", "CA2"}
\* the call ids the telephony side reports on the relay's connection
RelayCalls == {"CA1"}
\* the call ids the supervisor addresses
OverrideCalls == {"CA1"}
NoSid == "none"

VARIABLES
    ACTIVE_SESSIONS,  \* openai_ws.ACTIVE_SESSIONS: the call ids mapped to the relay's OpenAISession
    queues,           \* events._queues: call id -> optional queue (a sequence of events)
    detached,         \* queues popped by end_session, still held by their subscribers
    openai_session,   \* the OpenAISession of the relay
    upstream,         \* what was written to openai_session.ws, in order
    session,          \* the session dict of proxy_call
    twilio_ws,        \* the InterceptWebSocket: call_sid, suppress
    sent,             \* what was written to the telephony socket, in order
    pc,               \* where from_twilio (tw), from_openai (oa) and proxy_call (proxy) stand
    tw_event,         \* the inbound event from_twilio is handling while suspended
    oa_cur,           \* the outbound frame from_openai is handling while suspended
    executed,         \* the execute_command calls: command, call id, outcome
    inflight,         \* override handlers suspended in a socket send
    resp,             \* the HTTP results of the override requests, in order
    env,              \* the process environment: Twilio credentials, REQUIRE_SUPERVISOR_FEEDBACK
    cnt,              \* frames consumed so far: inbound, outbound, override requests
    outLog,           \* one entry per chunk handed to InterceptWebSocket.send_text
    lastIn,           \* the frame the last receive_text returned, with awaiting_user_input at that time
    readers,          \* the subscribers of events_ws: the queue each holds and what it has received
    busOp,            \* the last operation applied to the event bus directly
    det,              \* a text handed to detect_command directly, and what it returned
    tenant,           \* the TenantSessionManager, its lock and the tasks calling it
    relays            \* two relay connections side by side: the call id of each, the entry each wrote

vars == <<ACTIVE_SESSIONS, queues, detached, openai_session, upstream, session, twilio_ws,
          sent, pc, tw_event, oa_cur, executed, inflight, resp, env, cnt, outLog, lastIn,
          readers, busOp, det, tenant, relays>>

\* what the relay and the override handlers never touch
aux == <<readers, busOp, det, tenant, relays>>

\* the mutable state a coroutine works on between two suspensions
World ==
    [reg |-> ACTIVE_SESSIONS, qs |-> queues, dq |-> detached, os |-> openai_session,
     up |-> upstream, sess |-> session, tws |-> twilio_ws, sent |-> sent, exec |-> executed]

Commit(w) ==
    /\ ACTIVE_SESSIONS' = w.reg
    /\ queues' = w.qs
    /\ detached' = w.dq
    /\ openai_session' = w.os
    /\ upstream' = w.up
    /\ session' = w.sess
    /\ twilio_ws' = w.tws
    /\ sent' = w.sent
    /\ executed' = w.exec

\* ------------------------------------------------------------- events.py
Ev(type, sid, val) == [type |-> type, callSid |-> sid, val |-> val]
Sentinel == [type |-> "None", callSid |-> NoSid, val |-> None]

\* a variant of end_session that leaves the queue in _queues
end_session_keep(w, sid) ==
    IF IsNone(w.qs[sid]) THEN w
    ELSE [w EXCEPT !.dq = Append(@, [callSid |-> sid,
                                     items |-> w.qs[sid][1] \o <<Ev("session_end", sid, None), Sentinel>>]),
                   !.qs[sid] = Some(@[1] \o <<Ev("session_end", sid, None), Sentinel>>)]

\* a variant of publish_event that creates the queue it does not find
publish_event_create(w, sid, ev) == [w EXCEPT !.qs[sid] = Some(Append(GetOr(@, <<>>), ev))]

\* a variant of publish_event that puts the event at the head of the queue
publish_event_front(w, sid, ev) ==
    IF IsNone(w.qs[sid]) THEN w
    ELSE [w EXCEPT !.qs[sid] = Some(<<ev>> \o @[1])]

\* a variant of publish_event that puts the event on every queue of _queues
publish_event_all(w, sid, ev) ==
    [w EXCEPT !.qs = [c \in DOMAIN @ |-> IF IsNone(@[c]) THEN @[c] ELSE Some(Append(@[c][1], ev))]]

start_session(w, sid) ==
    [w EXCEPT !.qs[sid] = Some(Append(GetOr(w.qs[sid], <<>>), Ev("session_start", sid, None)))]

end_session(w, sid) ==
    IF IsNone(w.qs[sid]) THEN w
    ELSE [w EXCEPT !.dq = Append(@, [callSid |-> sid,
                                     items |-> w.qs[sid][1] \o <<Ev("session_end", sid, None), Sentinel>>]),
                   !.qs[sid] = None]

publish_event(w, sid, ev) ==
    IF IsNone(w.qs[sid]) THEN w
    ELSE [w EXCEPT !.qs[sid] = Some(Append(@[1], ev))]

\* ------------------------------------------------- OpenAISession (openai_ws.py)
WsOpen(w) == w.os.ws = "open"
\* self.ws.send(...) on an open connection
WsSend(w, msg) == [w EXCEPT !.up = Append(@, msg)]

Item(role, text) == [type |-> "conversation.item.create", role |-> role, text |-> text]
CancelMsg == [type |-> "response.cancel", role |-> "", text |-> <<>>]
SessionConfig == [type |-> "session.update", role |-> "", text |-> <<"config">>]
TurnDetectionOff == [type |-> "session.update", role |-> "", text |-> <<"turn_detection", "None">>]

UserItem(text) == Item("user", text)
AssistantItem(text) == Item("assistant", text)
SupervisorItem(text) == Item("user", <<"supervisor:", " ">> \o text)

HistoryAppend(w, role, text) == [w EXCEPT !.os.history = Append(@, [role |-> role, text |-> text])]

cancel_response(w) == WsSend(w, CancelMsg)

\* ------------------------------------------------------------ texts, frames
T_hi == <<"hi">>
T_press == <<"ok", " ", "[", "[", "press", ":", "1", "]", "]", " ", "thanks">>
T_end == <<"[", "[", "END_CALL", "]", "]">>
T_req == <<"[", "[", "request_user", ":", "code", "]", "]">>
T_answer == <<"12345">>

\* a JSON frame for the telephony socket; a key that is missing is None
Frame(type, text, token, last) ==
    [json |-> TRUE, type |-> type, text |-> text, token |-> token, last |-> last, interruptible |-> TRUE]
RawFrame == [json |-> FALSE, type |-> "raw", text |-> None, token |-> None, last |-> FALSE, interruptible |-> TRUE]
HoldFrame ==
    [json |-> TRUE, type |-> "text", text |-> None, token |-> Some(<<"Please hold while I check that.">>),
     last |-> TRUE, interruptible |-> FALSE]

\* ------------------------------------------------- execute_command (commands.py)
Truthy(o) == o # None /\ o[1] # <<>>

\* what one call of execute_command can do: return without credentials, return
\* without a request to make, or make the Twilio request, which succeeds or raises
ExecOutcomes(cmd, creds) ==
    IF ~creds THEN {"nocreds"}
    ELSE IF cmd.action = "press"
         THEN (IF Truthy(cmd.value) THEN {"ok", "raise"} ELSE {"noop"})
    ELSE IF cmd.action = "transfer"
         THEN (IF Truthy(cmd.value) THEN {"ok", "raise"} ELSE {"notarget"})
    ELSE IF cmd.action = "end_call" THEN {"ok", "raise"}
    ELSE {"noop"}

Call(cmd, sid, by, result) ==
    [action |-> cmd.action, value |-> cmd.value, callSid |-> sid, by |-> by, result |-> result]

\* --------------------------------------- InterceptWebSocket (backend/relay_ws.py)
\* receive_text: remember the first call id seen on the connection
InterceptReceive(w, ev) ==
    IF ev.json /\ w.tws.call_sid = NoSid /\ ev.callSid # None
    THEN [w EXCEPT !.tws.call_sid = ev.callSid[1]]
    ELSE w

\* send_text, suppressed: the flag after the chunk
SuppressAfterDrop(frame) == IF frame.last THEN FALSE ELSE TRUE
\* a variant of the next definition that lets the final chunk through
ForwardFinalWhenSuppressed(frame) == frame.last
\* send_text, suppressed: is the chunk passed on
ForwardWhenSuppressed(frame) == FALSE
\* a variant of the next definition that suppresses after every command
SuppressAfterAnyCommand(w, frame) == TRUE
\* send_text, command branch: the flag after the command
SuppressAfterCommand(w, frame) == IF ~frame.last THEN TRUE ELSE w.tws.suppress

\* a variant of the next definition that writes the frame ahead of the earlier ones
ForwardAhead(w, frame) == [w EXCEPT !.sent = <<frame>> \o @]
Forward(w, frame) == [w EXCEPT !.sent = Append(@, frame)]

\* the request_user branch up to cancel_response
RequestUserHold(w, cmd) ==
    LET sid == w.tws.call_sid
        w1 == IF sid # NoSid
              THEN publish_event(w, sid, Ev("query", sid, Some(GetOr(cmd.value, <<>>))))
              ELSE w
    IN  IF sid # NoSid /\ sid \in w1.reg
        THEN [w1 EXCEPT !.os.awaiting_user_input = TRUE, !.os.query_prompt = cmd.value]
        ELSE w1

\* send_text up to its first suspension or its return.  st: "returned",
\* "exec" (suspended in run_in_executor) or "raised"
InterceptSendText(w, frame) ==
    IF ~frame.json
    THEN [w |-> Forward(w, frame), st |-> "returned", cmd |-> None, fwd |-> TRUE]
    ELSE IF w.tws.suppress
    THEN [w |-> IF ForwardWhenSuppressed(frame)
                THEN Forward([w EXCEPT !.tws.suppress = SuppressAfterDrop(frame)], frame)
                ELSE [w EXCEPT !.tws.suppress = SuppressAfterDrop(frame)],
          st |-> "returned", cmd |-> None, fwd |-> ForwardWhenSuppressed(frame)]
    ELSE LET c == detect_command(GetOr(frame.text, <<>>))
         IN  IF IsNone(c)
             THEN [w |-> Forward(w, frame), st |-> "returned", cmd |-> None, fwd |-> TRUE]
             ELSE IF c[1].action = "request_user"
             THEN LET w1 == RequestUserHold(w, c[1])
                      cancels == w.tws.call_sid # NoSid /\ w.tws.call_sid \in w.reg
                  IN  IF cancels /\ ~WsOpen(w1)
                      THEN [w |-> w1, st |-> "raised", cmd |-> Some(c[1].action), fwd |-> FALSE]
                      ELSE [w |-> [Forward(IF cancels THEN cancel_response(w1) ELSE w1, HoldFrame)
                                     EXCEPT !.tws.suppress = TRUE],
                            st |-> "returned", cmd |-> Some(c[1].action), fwd |-> FALSE]
             ELSE IF w.tws.call_sid # NoSid
             THEN LET sid == w.tws.call_sid
                      w1 == publish_event(w, sid, Ev("command_executed", sid, Some(<<c[1].action>>)))
                  IN  [w |-> [w1 EXCEPT !.exec = Append(@, Call(c[1], sid, "relay", "pending"))],
                       st |-> "exec", cmd |-> Some(c[1].action), fwd |-> FALSE]
             ELSE [w |-> [w EXCEPT !.tws.suppress = SuppressAfterCommand(w, frame)],
                   st |-> "returned", cmd |-> Some(c[1].action), fwd |-> FALSE]

\* what the log keeps of one call of send_text: the frame, the flag it met, the
\* command detect_command returned, whether the frame itself went to the socket
LogEntry(w, frame, r) ==
    [frame |-> frame, supp |-> w.tws.suppress, cmd |-> r.cmd,
     fwd |-> r.w.sent = Append(w.sent, frame)]

\* ------------------------------------------------------------------ inputs
\* a frame read from the telephony socket
InEvent(event, type, callSid, voicePrompt, barge) ==
    [json |-> TRUE, event |-> event, type |-> type, callSid |-> callSid,
     voicePrompt |-> voicePrompt, barge |-> barge]
MalformedIn == [json |-> FALSE, event |-> "", type |-> "", callSid |-> None, voicePrompt |-> <<>>, barge |-> FALSE]
InEvents ==
    {InEvent("", "setup", Some(c), <<>>, FALSE) : c \in RelayCalls}
    \cup {InEvent("", "prompt", None, T_hi, FALSE),
          InEvent("", "interrupt", None, <<>>, TRUE),
          InEvent("disconnect", "", None, <<>>, FALSE),
          MalformedIn}

\* a message read from the upstream model socket
Msg(kind, text, audio, last) == [kind |-> kind, text |-> text, audio |-> audio, last |-> last]
OutMsgs ==
    {Msg("msg", Some(T_hi), FALSE, FALSE),
     Msg("msg", Some(T_press), FALSE, TRUE),
     Msg("msg", None, TRUE, FALSE)}
    \cup {
          Msg("end", None, FALSE, FALSE),
          Msg("malformed", None, FALSE, FALSE)}

\* a frame handed to InterceptWebSocket.send_text directly, as its unit tests do
DirectFrames ==
    {Frame("", Some(t), None, l) : t \in {T_hi, T_press, T_req}, l \in BOOLEAN}
    \cup {Frame("text", None, Some(T_press), TRUE), RawFrame}

\* the inputs a behaviour may still consume
Budget == cnt.in + cnt.out + cnt.ov < MaxSteps

Raised(p) == p \in {"raised:decode", "raised:closed", "raised:exec"}

\* ------------------------------------------ proxy_call.from_twilio (openai_ws.py)
\* a variant of the next definition that registers on every frame with a call id
RegisterAlways(w, ev) ==
    IF ev.callSid # None
    THEN LET sid == ev.callSid[1]
             w1 == start_session([w EXCEPT !.sess.callSid = sid], sid)
         IN  [w1 EXCEPT !.reg = @ \cup {sid}]
    ELSE w

\* lines 179-183: the first call id registers the session
Register(w, ev) ==
    IF ev.callSid # None /\ w.sess.callSid = NoSid
    THEN LET sid == ev.callSid[1]
             w1 == start_session([w EXCEPT !.sess.callSid = sid], sid)
         IN  [w1 EXCEPT !.reg = @ \cup {sid}]
    ELSE w

\* a variant of the next definition that ignores the flag
ForwardCallerSpeechAlways(w) == TRUE
\* line 201: is caller speech passed to the model session
ForwardCallerSpeech(w) == ~w.os.awaiting_user_input

\* lines 213-214: barge-in
BargeIn(w, ev) ==
    IF ev.barge
    THEN (IF WsOpen(w) THEN [w |-> cancel_response(w), st |-> "recv"]
          ELSE [w |-> w, st |-> "raised:closed"])
    ELSE [w |-> w, st |-> "recv"]

\* one frame, up to the suspension in OpenAISession.send_text or the end of the loop body
FromTwilioFrame(w, ev) ==
    LET w0 == InterceptReceive(w, ev)
    IN  IF ~ev.json THEN [w |-> w0, st |-> "raised:decode"]
        ELSE IF ev.event = "disconnect"
        THEN (IF WsOpen(w0) THEN [w |-> WsSend(w0, TurnDetectionOff), st |-> "done"]
              ELSE [w |-> w0, st |-> "raised:closed"])
        ELSE LET w1 == Register(w0, ev)
             IN  IF ev.type = "prompt"
                 THEN LET w2 == IF w1.sess.callSid # NoSid
                                THEN publish_event(w1, w1.sess.callSid,
                                         Ev("transcript", w1.sess.callSid, Some(ev.voicePrompt)))
                                ELSE w1
                      IN  IF ForwardCallerSpeech(w2)
                          THEN (IF WsOpen(w2)
                                THEN [w |-> WsSend(w2, UserItem(ev.voicePrompt)), st |-> "sending"]
                                ELSE [w |-> w2, st |-> "raised:closed"])
                          ELSE BargeIn(w2, ev)
                 ELSE BargeIn(w1, ev)

\* OpenAISession.send_text after its send, then lines 204-214
FromTwilioSent(w, ev) ==
    LET w1 == HistoryAppend(w, "user", ev.voicePrompt)
        w2 == IF w1.sess.callSid # NoSid
              THEN [w1 EXCEPT !.sess.request_ts = TRUE, !.sess.response_logged = FALSE]
              ELSE w1
    IN  BargeIn(w2, ev)

TwRecv(ev) ==
    /\ pc.tw = "recv"
    /\ Budget
    /\ \E r \in {FromTwilioFrame(World, ev)} :
           /\ Commit(r.w)
           /\ pc' = [pc EXCEPT !.tw = r.st]
           /\ tw_event' = IF r.st = "sending" THEN Some(ev) ELSE None
    /\ lastIn' = Some([ev |-> ev, awaiting |-> openai_session.awaiting_user_input])
    /\ cnt' = [cnt EXCEPT !.in = @ + 1]
    /\ UNCHANGED <<aux, oa_cur, inflight, resp, env, outLog>>

TwSendDone ==
    /\ pc.tw = "sending"
    /\ \E r \in {FromTwilioSent(World, tw_event[1])} :
           /\ Commit(r.w)
           /\ pc' = [pc EXCEPT !.tw = r.st]
    /\ tw_event' = None
    /\ UNCHANGED <<aux, oa_cur, inflight, resp, env, cnt, outLog, lastIn>>

\* lines 171-173: the telephony socket is closed
TwDisconnect ==
    /\ pc.tw = "recv"
    /\ Budget
    /\ cnt' = [cnt EXCEPT !.in = @ + 1]
    /\ \E w \in {[World EXCEPT !.os.ws = "closed"]} : Commit(w)
    /\ pc' = [pc EXCEPT !.tw = "done"]
    /\ lastIn' = None
    /\ UNCHANGED <<aux, tw_event, oa_cur, inflight, resp, env, outLog>>

\* ------------------------------------------ proxy_call.from_openai (openai_ws.py)
\* a variant of the next definition that never holds a turn back
FeedbackGateOff(w, m) == FALSE
\* lines 221-226: is the turn held back for the supervisor
FeedbackGate(w, m) ==
    /\ w.os.require_feedback
    /\ ~w.os.awaiting_feedback
    /\ ~w.os.skip_next_feedback
    /\ Truthy(m.text)

\* lines 227-240: the gate up to the suspension in cancel_response
GateHold(w, m) ==
    LET w1 == [w EXCEPT !.os.awaiting_feedback = TRUE,
                        !.os.awaiting_user_input = TRUE,
                        !.os.pending_response = m.text]
        w2 == IF w1.sess.callSid # NoSid
              THEN publish_event(w1, w1.sess.callSid, Ev("pending_response", w1.sess.callSid, m.text))
              ELSE w1
    IN  cancel_response(w2)

\* a variant of the next definition that puts the text under the key send_text reads
OutFrameText(m) ==
    IF m.audio
    THEN Frame("audio", None, None, m.last)
    ELSE Frame("text", m.text, Some(GetOr(m.text, <<>>)), m.last)
\* lines 252-269: the frame built for the telephony socket
OutFrame(m) ==
    IF m.audio
    THEN Frame("audio", None, None, m.last)
    ELSE Frame("text", None, Some(GetOr(m.text, <<>>)), m.last)

\* line 271
FirstChunk(w) == w.sess.callSid # NoSid /\ w.sess.request_ts /\ ~w.sess.response_logged

\* lines 270-287: the assistant_response event
PublishResponse(w, m) ==
    IF w.sess.callSid # NoSid
    THEN publish_event(w, w.sess.callSid, Ev("assistant_response", w.sess.callSid, m.text))
    ELSE w

\* a variant of the next definition that lets caller speech through again once a
\* chunk was written to the telephony socket
AfterSendResumes(w, fc) ==
    IF fc
    THEN [w EXCEPT !.sess.request_ts = FALSE, !.sess.response_logged = TRUE,
                   !.os.skip_next_feedback = FALSE, !.os.awaiting_user_input = FALSE]
    ELSE [w EXCEPT !.os.awaiting_user_input = FALSE]
\* lines 290-298
AfterSend(w, fc) ==
    IF fc
    THEN [w EXCEPT !.sess.request_ts = FALSE, !.sess.response_logged = TRUE,
                   !.os.skip_next_feedback = FALSE]
    ELSE w

\* twilio_ws.send_text(frame) called by the outbound task: the state it leaves
\* and where the task stands
OutboundSend(w, frame, fc) ==
    LET r == InterceptSendText(w, frame)
    IN  IF r.st = "returned"
        THEN (IF r.fwd /\ fc
              THEN [w |-> r.w, st |-> "fwd", entry |-> LogEntry(w, frame, r)]
              ELSE [w |-> AfterSend(r.w, fc), st |-> "recv", entry |-> LogEntry(w, frame, r)])
        ELSE IF r.st = "exec"
        THEN [w |-> r.w, st |-> "exec", entry |-> LogEntry(w, frame, r)]
        ELSE [w |-> r.w, st |-> "raised:closed", entry |-> LogEntry(w, frame, r)]

\* one decoded message on its way through from_openai
OaMessage(m) ==
    /\ pc.oa = "recv"
    /\ Budget
    /\ WsOpen(World)
    /\ m.kind = "msg"
    /\ ~FeedbackGate(World, m)
    /\ \E fc \in {FirstChunk(World)} :
       \E r \in {OutboundSend(PublishResponse(World, m), OutFrame(m), fc)} :
           /\ Commit(r.w)
           /\ pc' = [pc EXCEPT !.oa = r.st]
           /\ oa_cur' = IF r.st \in {"exec", "fwd"} THEN Some([frame |-> OutFrame(m), fc |-> fc]) ELSE None
           /\ outLog' = Append(outLog, r.entry)
    /\ cnt' = [cnt EXCEPT !.out = @ + 1]
    /\ UNCHANGED <<aux, tw_event, inflight, resp, env, lastIn>>

OaGate(m) ==
    /\ pc.oa = "recv"
    /\ Budget
    /\ WsOpen(World)
    /\ m.kind = "msg"
    /\ FeedbackGate(World, m)
    /\ \E w \in {GateHold(World, m)} : Commit(w)
    /\ pc' = [pc EXCEPT !.oa = "gate"]
    /\ cnt' = [cnt EXCEPT !.out = @ + 1]
    /\ UNCHANGED <<aux, tw_event, oa_cur, inflight, resp, env, outLog, lastIn>>

\* lines 241-249: the hold message of the gate, then continue
OaGateHoldSent ==
    /\ pc.oa = "gate"
    /\ \E r \in {OutboundSend(World, HoldFrame, FALSE)} :
           /\ Commit(r.w)
           /\ pc' = [pc EXCEPT !.oa = r.st]
           /\ outLog' = Append(outLog, r.entry)
    /\ UNCHANGED <<aux, tw_event, oa_cur, inflight, resp, env, cnt, lastIn>>

\* lines 218-219: an end or error frame ends the loop
OaEnd(m) ==
    /\ pc.oa = "recv"
    /\ Budget
    /\ WsOpen(World)
    /\ m.kind = "end"
    /\ pc' = [pc EXCEPT !.oa = "done"]
    /\ cnt' = [cnt EXCEPT !.out = @ + 1]
    /\ UNCHANGED <<aux, ACTIVE_SESSIONS, queues, detached, openai_session, upstream, session, twilio_ws,
                   sent, tw_event, oa_cur, executed, inflight, resp, env, outLog, lastIn>>

\* aiter_messages, line 151: json.loads raises on a frame that is not JSON
OaMalformed(m) ==
    /\ pc.oa = "recv"
    /\ Budget
    /\ WsOpen(World)
    /\ m.kind = "malformed"
    /\ pc' = [pc EXCEPT !.oa = "raised:decode"]
    /\ cnt' = [cnt EXCEPT !.out = @ + 1]
    /\ UNCHANGED <<aux, ACTIVE_SESSIONS, queues, detached, openai_session, upstream, session, twilio_ws,
                   sent, tw_event, oa_cur, executed, inflight, resp, env, outLog, lastIn>>

\* aiter_messages: the iteration ends when the connection is closed
OaClosed ==
    /\ pc.oa = "recv"
    /\ ~WsOpen(World)
    /\ pc' = [pc EXCEPT !.oa = "done"]
    /\ UNCHANGED <<aux, ACTIVE_SESSIONS, queues, detached, openai_session, upstream, session, twilio_ws,
                   sent, tw_event, oa_cur, executed, inflight, resp, env, cnt, outLog, lastIn>>

\* the forwarded frame is written: lines 290-298
OaFwdDone ==
    /\ pc.oa = "fwd"
    /\ \E w \in {AfterSend(World, oa_cur[1].fc)} : Commit(w)
    /\ pc' = [pc EXCEPT !.oa = "recv"]
    /\ oa_cur' = None
    /\ UNCHANGED <<aux, tw_event, inflight, resp, env, cnt, outLog, lastIn>>

PendingCall == CHOOSE i \in 1..Len(executed) : executed[i].result = "pending"

\* relay_ws.py lines 97-101: run_in_executor returns or raises
ExecDone(result) ==
    /\ pc.oa = "exec"
    /\ result \in ExecOutcomes(executed[PendingCall], env.creds)
    /\ \E w1 \in {[World EXCEPT !.exec[PendingCall].result = result]} :
           IF result = "raise"
           THEN /\ Commit(w1)
                /\ pc' = [pc EXCEPT !.oa = "raised:exec"]
           ELSE /\ \E w2 \in {AfterSend([w1 EXCEPT !.tws.suppress = SuppressAfterCommand(w1, oa_cur[1].frame)],
                                        oa_cur[1].fc)} : Commit(w2)
                /\ pc' = [pc EXCEPT !.oa = "recv"]
    /\ oa_cur' = None
    /\ UNCHANGED <<aux, tw_event, inflight, resp, env, cnt, outLog, lastIn>>

\* InterceptWebSocket.send_text applied to a frame of the caller's choice
DirectSend(frame) ==
    /\ pc.oa = "recv"
    /\ Budget
    /\ \E r \in {OutboundSend(World, frame, FALSE)} :
           /\ Commit(r.w)
           /\ pc' = [pc EXCEPT !.oa = r.st]
           /\ oa_cur' = IF r.st = "exec" THEN Some([frame |-> frame, fc |-> FALSE]) ELSE None
           /\ outLog' = Append(outLog, r.entry)
    /\ cnt' = [cnt EXCEPT !.out = @ + 1]
    /\ UNCHANGED <<aux, tw_event, inflight, resp, env, lastIn>>

\* the provider closes the upstream connection
ProviderClose ==
    /\ pc.proxy = "running"
    /\ Budget
    /\ cnt' = [cnt EXCEPT !.out = @ + 1]
    /\ WsOpen(World)
    /\ \E w \in {[World EXCEPT !.os.ws = "closed"]} : Commit(w)
    /\ UNCHANGED <<aux, pc, tw_event, oa_cur, inflight, resp, env, outLog, lastIn>>

\* ------------------------------------------------------ proxy_call, lines 300-305
\* a variant of the next definition that does not wait for from_twilio
ProxyJoinFirstDone ==
    /\ pc.proxy = "running"
    /\ pc.oa = "done"
    /\ \E w \in {IF session.callSid # NoSid
                  THEN end_session([World EXCEPT !.reg = @ \ {session.callSid}, !.os.ws = "closed"],
                                   session.callSid)
                  ELSE [World EXCEPT !.os.ws = "closed"]} : Commit(w)
    /\ pc' = [pc EXCEPT !.proxy = "finished"]
    /\ UNCHANGED <<aux, tw_event, oa_cur, inflight, resp, env, cnt, outLog, lastIn>>

\* both tasks returned: the registration is removed and the stream ended
ProxyJoin ==
    /\ pc.proxy = "running"
    /\ pc.tw = "done"
    /\ pc.oa = "done"
    /\ \E w \in {IF session.callSid # NoSid
                  THEN end_session([World EXCEPT !.reg = @ \ {session.callSid}, !.os.ws = "closed"],
                                   session.callSid)
                  ELSE [World EXCEPT !.os.ws = "closed"]} : Commit(w)
    /\ pc' = [pc EXCEPT !.proxy = "finished"]
    /\ UNCHANGED <<aux, tw_event, oa_cur, inflight, resp, env, cnt, outLog, lastIn>>

\* a task raised: gather re-raises and only OpenAISession.__aexit__ runs
ProxyCrash ==
    /\ pc.proxy = "running"
    /\ Raised(pc.tw) \/ Raised(pc.oa)
    /\ \E w \in {[World EXCEPT !.os.ws = "closed"]} : Commit(w)
    /\ pc' = [pc EXCEPT !.proxy = "crashed"]
    /\ UNCHANGED <<aux, tw_event, oa_cur, inflight, resp, env, cnt, outLog, lastIn>>

\* ------------------------------------------------- backend/override_api.py
T_say == <<"one", " ", "moment">>
PressCmd == [action |-> "press", value |-> Some(<<"1">>)]
EndCmd == [action |-> "end_call", value |-> None]
TransferCmd == [action |-> "transfer", value |-> Some(<<"+15551230000">>)]

Answer(op, sid, status) == [op |-> op, callSid |-> sid, status |-> status]
RemoveAt(q, i) == SubSeq(q, 1, i - 1) \o SubSeq(q, i + 1, Len(q))

\* ACTIVE_SESSIONS.get(payload.callSid) found a session
Registered(w, sid) == sid \in w.reg
\* a variant of the next definition that skips the check
ClarificationPendingAlways(w) == TRUE
\* override_clarification line 148: a query is pending
ClarificationPending(w) == w.os.awaiting_user_input

\* a variant of the next definition that leaves the flag set
ClearQueryKeepsFlag(w) == [w EXCEPT !.os.query_prompt = None]
\* override_clarification lines 156-157
ClearQuery(w) == [w EXCEPT !.os.awaiting_user_input = FALSE, !.os.query_prompt = None]

\* an override handler answers without having been suspended
OvAnswer(world, op, sid, status) ==
    /\ \E w \in {world} : Commit(w)
    /\ resp' = Append(resp, Answer(op, sid, status))
    /\ cnt' = [cnt EXCEPT !.ov = @ + 1]
    /\ UNCHANGED <<aux, pc, tw_event, oa_cur, inflight, env, outLog, lastIn>>

\* an override handler is suspended in a send to the model socket
OvSuspend(world, op, sid, text) ==
    /\ \E w \in {world} : Commit(w)
    /\ inflight' = Append(inflight, [op |-> op, callSid |-> sid, text |-> text])
    /\ cnt' = [cnt EXCEPT !.ov = @ + 1]
    /\ UNCHANGED <<aux, pc, tw_event, oa_cur, resp, env, outLog, lastIn>>

\* a suspended override handler runs to its end
OvResume(world, i) ==
    /\ \E w \in {world} : Commit(w)
    /\ resp' = Append(resp, Answer(inflight[i].op, inflight[i].callSid, 200))
    /\ inflight' = RemoveAt(inflight, i)
    /\ UNCHANGED <<aux, pc, tw_event, oa_cur, env, cnt, outLog, lastIn>>

\* POST /override/text, lines 62-72
override_text(sid) ==
    /\ cnt.ov < MaxOv /\ Budget
    /\ IF ~Registered(World, sid) THEN OvAnswer(World, "text", sid, 404)
       ELSE IF ~WsOpen(World) THEN OvAnswer(World, "text", sid, 500)
       ELSE OvSuspend(WsSend(World, AssistantItem(T_say)), "text", sid, T_say)

\* lines 73-81, with the end of inject_assistant_text
override_text_done(i) ==
    /\ i \in 1..Len(inflight)
    /\ inflight[i].op = "text"
    /\ LET sid == inflight[i].callSid
           w1 == HistoryAppend(World, "assistant", inflight[i].text)
       IN  OvResume(publish_event(w1, sid, Ev("assistant_override", sid, Some(inflight[i].text))), i)

\* execute_command called on the event loop by an override handler
OvExecute(w, cmd, sid, result) == [w EXCEPT !.exec = Append(@, Call(cmd, sid, "override", result))]

\* POST /override/dtmf, lines 84-101
override_dtmf(sid, result) ==
    /\ cnt.ov < MaxOv /\ Budget
    /\ result \in ExecOutcomes(PressCmd, env.creds)
    /\ LET w1 == OvExecute(World, PressCmd, sid, result)
       IN  IF result = "raise" THEN OvAnswer(w1, "dtmf", sid, 500)
           ELSE OvAnswer(publish_event(w1, sid, Ev("command_executed", sid, Some(<<"press">>))),
                         "dtmf", sid, 200)

\* POST /override/end, lines 104-120
override_end(sid, result) ==
    /\ cnt.ov < MaxOv /\ Budget
    /\ result \in ExecOutcomes(EndCmd, env.creds)
    /\ LET w1 == OvExecute(World, EndCmd, sid, result)
       IN  IF result = "raise" THEN OvAnswer(w1, "end", sid, 500)
           ELSE OvAnswer(end_session(publish_event(w1, sid, Ev("session_end", sid, None)), sid),
                         "end", sid, 200)

\* POST /override/transfer, lines 123-139
override_transfer(sid, result) ==
    /\ cnt.ov < MaxOv /\ Budget
    /\ result \in ExecOutcomes(TransferCmd, env.creds)
    /\ LET w1 == OvExecute(World, TransferCmd, sid, result)
       IN  IF result = "raise" THEN OvAnswer(w1, "transfer", sid, 500)
           ELSE OvAnswer(publish_event(w1, sid, Ev("session_transfer", sid, TransferCmd.value)),
                         "transfer", sid, 200)

\* POST /override/clarification, lines 142-154
override_clarification(sid) ==
    /\ cnt.ov < MaxOv /\ Budget
    /\ IF ~Registered(World, sid) THEN OvAnswer(World, "clarification", sid, 404)
       ELSE IF ~ClarificationPending(World) THEN OvAnswer(World, "clarification", sid, 400)
       ELSE IF ~WsOpen(World) THEN OvAnswer(World, "clarification", sid, 500)
       ELSE OvSuspend(WsSend(World, SupervisorItem(T_answer)), "clarification", sid, T_answer)

\* lines 156-166, with the end of inject_supervisor_text
override_clarification_done(i) ==
    /\ i \in 1..Len(inflight)
    /\ inflight[i].op = "clarification"
    /\ LET sid == inflight[i].callSid
           w1 == ClearQuery(HistoryAppend(World, "supervisor", inflight[i].text))
       IN  OvResume(publish_event(w1, sid, Ev("query_response", sid, Some(inflight[i].text))), i)

\* ------------------------------------------------------------ specification
NoBusOp == [op |-> "none", callSid |-> NoSid, n |-> 0]
NoText == [text |-> <<>>, out |-> None, done |-> FALSE]
\* TenantSessionManager.__init__, seen from one tenant: no session, no dashboard
\* connection, the lock free; no broadcast under way
NoBroadcast == [on |-> FALSE, i |-> 0, disconnected |-> <<>>, log |-> <<>>]
NoTenant == [sessions |-> {}, dash |-> <<>>, locked |-> FALSE, waiters |-> <<>>, bc |-> NoBroadcast, n |-> 0]

\* two connections to the relay endpoint, each served by its own proxy_call
Conns == {"a", "b"}
NoConn == "none"
\* both connections accepted, no call id reported; owner: whose OpenAISession
\* ACTIVE_SESSIONS holds under a call id; found: what the override lookups got
NoRelays ==
    [conn |-> [c \in Conns |-> [callSid |-> NoSid, done |-> FALSE]],
     owner |-> [sid \in CallIds |-> NoConn],
     found |-> <<>>,
     n |-> 0]

\* the state in which proxy_call starts
InitCall ==
    /\ env \in [creds : BOOLEAN, feedback : BOOLEAN]
    /\ ACTIVE_SESSIONS = {}
    /\ queues = [c \in CallIds |-> None]
    /\ detached = <<>>
    /\ openai_session = [ws |-> "open", history |-> <<>>, awaiting_user_input |-> FALSE,
                         query_prompt |-> None, require_feedback |-> env.feedback,
                         awaiting_feedback |-> FALSE, pending_response |-> None,
                         skip_next_feedback |-> FALSE]
    /\ upstream = <<SessionConfig>>
    /\ session = [callSid |-> NoSid, request_ts |-> FALSE, response_logged |-> FALSE]
    /\ twilio_ws = [call_sid |-> NoSid, suppress |-> FALSE]
    /\ sent = <<>>
    /\ pc = [tw |-> "recv", oa |-> "recv", proxy |-> "running"]
    /\ tw_event = None
    /\ oa_cur = None
    /\ executed = <<>>
    /\ inflight = <<>>
    /\ resp = <<>>
    /\ cnt = [in |-> 0, out |-> 0, ov |-> 0]
    /\ outLog = <<>>
    /\ lastIn = None

Init ==
    /\ InitCall
    /\ readers = <<>>
    /\ busOp = NoBusOp
    /\ det = NoText
    /\ tenant = NoTenant
    /\ relays = NoRelays

ExecResults == {"ok", "raise", "nocreds", "noop", "notarget"}

TwilioSide ==
    \/ \E ev \in InEvents : TwRecv(ev)
    \/ TwSendDone
    \/ TwDisconnect

Overrides ==
    \/ \E sid \in OverrideCalls : override_text(sid)
    \/ \E i \in 1..MaxOv : override_text_done(i)
    \/ \E sid \in OverrideCalls, r \in ExecResults : override_dtmf(sid, r)
    \/ \E sid \in OverrideCalls, r \in ExecResults : override_end(sid, r)
    \/ \E sid \in OverrideCalls, r \in ExecResults : override_transfer(sid, r)
    \/ \E sid \in OverrideCalls : override_clarification(sid)
    \/ \E i \in 1..MaxOv : override_clarification_done(i)

Lifecycle ==
    \/ ProviderClose
    \/ ProxyJoin
    \/ ProxyCrash

\* the whole relay: model messages reach the interceptor through from_openai.
\* ExecDone is no step of it: the frames from_openai builds carry no "text" key,
\* so send_text never reaches run_in_executor there (pc.oa is never "exec")
Next ==
    \/ TwilioSide
    \/ \E m \in OutMsgs : OaMessage(m)
    \/ \E m \in OutMsgs : OaGate(m)
    \/ OaGateHoldSent
    \/ \E m \in OutMsgs : OaEnd(m)
    \/ \E m \in OutMsgs : OaMalformed(m)
    \/ OaClosed
    \/ OaFwdDone
    \/ Overrides
    \/ Lifecycle

Spec == Init /\ [][Next]_vars

\* the interceptor on its own: frames are handed to send_text directly
NextRelay ==
    \/ TwilioSide
    \/ \E f \in DirectFrames : DirectSend(f)
    \/ OaClosed
    \/ \E r \in ExecResults : ExecDone(r)
    \/ ProxyJoin
    \/ ProxyCrash

InitRelay == Init /\ ~env.feedback

SpecRelay == InitRelay /\ [][NextRelay]_vars

\* the steps that wait for nothing outside the process: a coroutine whose await
\* has completed is resumed by the event loop
Scheduled ==
    \/ TwSendDone
    \/ OaGateHoldSent
    \/ OaClosed
    \/ OaFwdDone
    \/ ProxyJoin
    \/ ProxyCrash
    \/ \E i \in 1..MaxOv : override_text_done(i)
    \/ \E i \in 1..MaxOv : override_clarification_done(i)

\* the whole relay under the scheduling of the event loop; frames from either
\* socket and supervisor requests arrive or not
SpecLive == Init /\ [][Next]_vars /\ WF_vars(Scheduled)

\* the inbound side on its own, with frames that name a second call id: a setup
\* frame for every call id and a prompt frame that carries the id of the call
InFrames ==
    InEvents
    \cup {InEvent("", "setup", Some(c), <<>>, FALSE) : c \in CallIds}
    \cup {InEvent("", "prompt", Some(c), T_hi, FALSE) : c \in RelayCalls}

NextInbound ==
    \/ \E ev \in InFrames : TwRecv(ev)
    \/ TwSendDone
    \/ TwDisconnect
    \/ \E sid \in OverrideCalls, r \in ExecResults : override_end(sid, r)
    \/ OaClosed
    \/ ProxyJoin
    \/ ProxyCrash

InitInbound == Init /\ ~env.feedback

SpecInbound == InitInbound /\ [][NextInbound]_vars

\* ------------------------------------- the event bus on its own (events.py)
\* subscribe, line 50: the queue of the call, created when missing
subscribe(w, sid) == [w EXCEPT !.qs[sid] = Some(GetOr(w.qs[sid], <<>>))]

\* a subscriber of events_ws.  at = 0: it holds the queue now in _queues under
\* callSid; at = i: it holds detached[i], which end_session took out of _queues.
\* early: nothing had been put on the queue when it subscribed
Reader(sid, early) == [callSid |-> sid, at |-> 0, got |-> <<>>, open |-> TRUE, early |-> early]

\* the content of the queue a subscriber holds
QueueOf(r) == IF r.at = 0 THEN GetOr(queues[r.callSid], <<>>) ELSE detached[r.at].items

SameQueue(r1, r2) == r1.at = r2.at /\ (r1.at = 0 => r1.callSid = r2.callSid)

\* nothing was ever put on the queue of sid: it is missing, or empty with no
\* subscriber having read from it
Untouched(sid) ==
    \/ queues[sid] = None
    \/ /\ queues[sid] = Some(<<>>)
       /\ \A k \in DOMAIN readers :
              (readers[k].at = 0 /\ readers[k].callSid = sid) => readers[k].got = <<>>

BusBudget == busOp.n < MaxBusOps
Applied(op, sid) == busOp' = [op |-> op, callSid |-> sid, n |-> busOp.n + 1]

\* the event a test publishes: its payload tells the publish_event calls apart
Custom(sid) == Ev("custom", sid, Some(<<ToString(busOp.n + 1)>>))

BusStart(sid) ==
    /\ BusBudget
    /\ \E w \in {start_session(World, sid)} : Commit(w)
    /\ Applied("start_session", sid)
    /\ UNCHANGED <<pc, tw_event, oa_cur, inflight, resp, env, cnt, outLog, lastIn, readers, det, tenant, relays>>

BusPublish(sid) ==
    /\ BusBudget
    /\ \E w \in {publish_event(World, sid, Custom(sid))} : Commit(w)
    /\ Applied("publish_event", sid)
    /\ UNCHANGED <<pc, tw_event, oa_cur, inflight, resp, env, cnt, outLog, lastIn, readers, det, tenant, relays>>

\* end_session; the subscribers of the queue keep the object that left _queues
BusEnd(sid) ==
    /\ BusBudget
    /\ \E w \in {end_session(World, sid)} : Commit(w)
    /\ readers' = [k \in DOMAIN readers |->
                      IF readers[k].at = 0 /\ readers[k].callSid = sid /\ queues[sid] # None
                      THEN [readers[k] EXCEPT !.at = Len(detached) + 1]
                      ELSE readers[k]]
    /\ Applied("end_session", sid)
    /\ UNCHANGED <<pc, tw_event, oa_cur, inflight, resp, env, cnt, outLog, lastIn, det, tenant, relays>>

\* events_ws, lines 138-139: accept, then subscribe
Subscribe(sid) ==
    /\ BusBudget
    /\ Len(readers) < MaxReaders
    /\ \E w \in {subscribe(World, sid)} : Commit(w)
    /\ readers' = Append(readers, Reader(sid, Untouched(sid)))
    /\ Applied("subscribe", sid)
    /\ UNCHANGED <<pc, tw_event, oa_cur, inflight, resp, env, cnt, outLog, lastIn, det, tenant, relays>>

\* events_ws, lines 141-145: queue.get() hands the head of the queue to the one
\* subscriber that asked; the sentinel ends its loop
Get(k) ==
    /\ k \in DOMAIN readers
    /\ readers[k].open
    /\ QueueOf(readers[k]) # <<>>
    /\ \E r \in {readers[k]} : \E ev \in {Head(QueueOf(readers[k]))} :
           /\ readers' = [readers EXCEPT ![k].got = IF ev = Sentinel THEN @ ELSE Append(@, ev),
                                         ![k].open = ev # Sentinel]
           /\ IF r.at = 0
              THEN /\ queues' = [queues EXCEPT ![r.callSid] = Some(Tail(@[1]))]
                   /\ UNCHANGED detached
              ELSE /\ detached' = [detached EXCEPT ![r.at].items = Tail(@)]
                   /\ UNCHANGED queues
           /\ busOp' = [busOp EXCEPT !.op = "get", !.callSid = r.callSid]
    /\ UNCHANGED <<ACTIVE_SESSIONS, openai_session, upstream, session, twilio_ws, sent, executed,
                   pc, tw_event, oa_cur, inflight, resp, env, cnt, outLog, lastIn, det, tenant, relays>>

NextBus ==
    \/ \E sid \in CallIds : BusStart(sid)
    \/ \E sid \in CallIds : BusPublish(sid)
    \/ \E sid \in CallIds : BusEnd(sid)
    \/ \E sid \in CallIds : Subscribe(sid)
    \/ \E k \in 1..MaxReaders : Get(k)

InitBus == Init /\ ~env.creds /\ ~env.feedback

SpecBus == InitBus /\ [][NextBus]_vars

\* the event bus under the scheduling of the event loop: a subscriber blocked
\* in queue.get() is resumed once its queue is non-empty
SpecBusLive == SpecBus /\ \A k \in 1..MaxReaders : WF_vars(Get(k))

\* ------------------------ two relay connections side by side (openai_ws.py)
MaxTwinOps == 5

TwinBudget == relays.n < MaxTwinOps

\* lines 179-183 for connection c: the first call id it reads starts the event
\* stream and writes its session into ACTIVE_SESSIONS under that id
TwinRegister(c, sid) ==
    /\ TwinBudget
    /\ ~relays.conn[c].done
    /\ IF relays.conn[c].callSid = NoSid
       THEN /\ \E w \in {start_session([World EXCEPT !.reg = @ \cup {sid}], sid)} : Commit(w)
            /\ relays' = [relays EXCEPT !.conn[c].callSid = sid, !.owner[sid] = c, !.n = @ + 1]
       ELSE /\ \E w \in {World} : Commit(w)
            /\ relays' = [relays EXCEPT !.n = @ + 1]
    /\ UNCHANGED <<pc, tw_event, oa_cur, inflight, resp, env, cnt, outLog, lastIn,
                   readers, busOp, det, tenant>>

\* lines 189-200 for connection c: a transcript event for its call
TwinPublish(c) ==
    /\ TwinBudget
    /\ ~relays.conn[c].done
    /\ relays.conn[c].callSid # NoSid
    /\ \E w \in {publish_event(World, relays.conn[c].callSid,
                               Ev("transcript", relays.conn[c].callSid, Some(T_hi)))} : Commit(w)
    /\ relays' = [relays EXCEPT !.n = @ + 1]
    /\ UNCHANGED <<pc, tw_event, oa_cur, inflight, resp, env, cnt, outLog, lastIn,
                   readers, busOp, det, tenant>>

\* lines 300-303 for connection c: gather has returned; the entry under the call
\* id is popped and the stream of the call id is ended
TwinFinish(c) ==
    /\ ~relays.conn[c].done
    /\ \E sid \in {relays.conn[c].callSid} :
           IF sid # NoSid
           THEN /\ \E w \in {end_session([World EXCEPT !.reg = @ \ {sid}], sid)} : Commit(w)
                /\ relays' = [relays EXCEPT !.conn[c].done = TRUE, !.owner[sid] = NoConn]
           ELSE /\ \E w \in {World} : Commit(w)
                /\ relays' = [relays EXCEPT !.conn[c].done = TRUE]
    /\ UNCHANGED <<pc, tw_event, oa_cur, inflight, resp, env, cnt, outLog, lastIn,
                   readers, busOp, det, tenant>>

\* override_api.py, line 65: ACTIVE_SESSIONS.get(callSid) of an override request
TwinLookup(sid) ==
    /\ TwinBudget
    /\ relays' = [relays EXCEPT !.found = Append(@, [callSid |-> sid, conn |-> relays.owner[sid]]),
                                !.n = @ + 1]
    /\ UNCHANGED <<ACTIVE_SESSIONS, queues, detached, openai_session, upstream, session, twilio_ws,
                   sent, executed, pc, tw_event, oa_cur, inflight, resp, env, cnt, outLog, lastIn,
                   readers, busOp, det, tenant>>

NextTwin ==
    \/ \E c \in Conns, sid \in CallIds : TwinRegister(c, sid)
    \/ \E c \in Conns : TwinPublish(c)
    \/ \E c \in Conns : TwinFinish(c)
    \/ \E sid \in CallIds : TwinLookup(sid)

InitTwin == Init /\ ~env.creds /\ ~env.feedback

SpecTwin == InitTwin /\ [][NextTwin]_vars

\* ------------------------------------- detect_command on its own (commands.py)
\* what the texts handed to detect_command are made of
Pieces ==
    {<<"hi">>, <<" ">>,
     <<"[", "[", "press", ":", "1", "]", "]">>,
     <<"[", "[", "press", ":", "2", "]", "]">>,
     <<"[", "[", " ", "PRESS", ":", "1", " ", "]", "]">>,
     <<"[", "[", "end_call", "]", "]">>,
     <<"[", "[", "foo", ":", "1", "]", "]">>,
     T_req,
     <<"[", "[">>, <<"]", "]">>,
     <<"[", "press", ":", "1", "]">>}

RECURSIVE TextsUpTo(_)
TextsUpTo(n) ==
    IF n = 0 THEN {<<>>}
    ELSE {t \o p : t \in TextsUpTo(n - 1), p \in Pieces \cup {<<>>}}

Texts == TextsUpTo(MaxPieces)

InitDetect ==
    /\ InitCall
    /\ ~env.creds /\ ~env.feedback
    /\ readers = <<>>
    /\ busOp = NoBusOp
    /\ det \in {[text |-> t, out |-> None, done |-> FALSE] : t \in Texts}
    /\ tenant = NoTenant
    /\ relays = NoRelays

Detect ==
    /\ ~det.done
    /\ det' = [det EXCEPT !.out = detect_command(det.text), !.done = TRUE]
    /\ UNCHANGED <<ACTIVE_SESSIONS, queues, detached, openai_session, upstream, session, twilio_ws,
                   sent, pc, tw_event, oa_cur, executed, inflight, resp, env, cnt, outLog, lastIn,
                   readers, busOp, tenant, relays>>

NextDetect == Detect

SpecDetect == InitDetect /\ [][NextDetect]_vars

\* --------------------------- TenantSessionManager (backend/session_manager.py)
\* one tenant: sessions is _sessions[tenant_id] (its call ids), dash is
\* _dashboard_connections[tenant_id] in insertion order, locked and waiters are
\* the asyncio.Lock, bc is the broadcast that holds the lock while it sends
DashIds == {"d1", "d2"}

\* asyncio.Lock.acquire returns at once only when the lock is free and nobody waits
LockFree(tm) == ~tm.locked /\ tm.waiters = <<>>

\* the bodies of the methods, run with the lock taken
add_session(tm, sid) == [tm EXCEPT !.sessions = @ \cup {sid}]
remove_session(tm, sid) == [tm EXCEPT !.sessions = @ \ {sid}]
get_session_count(tm) == Cardinality(tm.sessions)
has_capacity(tm, max_concurrent) == get_session_count(tm) < max_concurrent
add_dashboard_connection(tm, c) ==
    IF \E j \in 1..Len(tm.dash) : tm.dash[j] = c THEN tm ELSE [tm EXCEPT !.dash = Append(@, c)]
remove_dashboard_connection(tm, c) ==
    LET Other(d) == d # c IN [tm EXCEPT !.dash = SelectSeq(@, Other)]

\* lines 155-162: no connection, return; else the loop starts and the lock stays taken
broadcast_begin(tm) ==
    IF tm.dash = <<>> THEN [tm EXCEPT !.bc = NoBroadcast]
    ELSE [tm EXCEPT !.locked = TRUE, !.bc = [on |-> TRUE, i |-> 1, disconnected |-> <<>>, log |-> <<>>]]

\* a variant of the next definition that forgets every connection once one failed
broadcast_cleanup_all(dash, disconnected) == IF disconnected = <<>> THEN dash ELSE <<>>
\* lines 171-172: the connections that are left after the loop
broadcast_cleanup(dash, disconnected) ==
    LET Alive(d) == \A j \in 1..Len(disconnected) : disconnected[j] # d IN SelectSeq(dash, Alive)

\* lines 163-172: websocket.send_json returned (ok) or raised; after the last
\* connection the failed ones are deleted and the lock is released
broadcast_sent(tm, ok) ==
    LET conn == tm.dash[tm.bc.i]
        disc == IF ok THEN tm.bc.disconnected ELSE Append(tm.bc.disconnected, conn)
        log == Append(tm.bc.log, [conn |-> conn, ok |-> ok])
    IN  IF tm.bc.i < Len(tm.dash)
        THEN [tm EXCEPT !.bc.i = @ + 1, !.bc.disconnected = disc, !.bc.log = log]
        ELSE [tm EXCEPT !.bc = [on |-> FALSE, i |-> 0, disconnected |-> disc, log |-> log],
                        !.dash = broadcast_cleanup(@, disc),
                        !.locked = FALSE]

\* an admission as its callers are to make it: has_capacity, then add_session
\* when it returned true.  has_capacity has released the lock when add_session
\* asks for it, and waits behind whoever is already waiting
Admission(tm, sid) ==
    IF has_capacity(tm, MaxConcurrent)
    THEN (IF LockFree(tm) THEN add_session(tm, sid)
          ELSE [tm EXCEPT !.waiters = Append(@, [op |-> "add_session", arg |-> sid])])
    ELSE tm

\* a call, from the moment it has the lock to its next suspension or its return
RunLocked(tm, k) ==
    CASE k.op = "has_capacity" -> Admission(tm, k.arg)
      [] k.op = "add_session" -> add_session(tm, k.arg)
      [] k.op = "remove_session" -> remove_session(tm, k.arg)
      [] k.op = "add_dashboard_connection" -> add_dashboard_connection(tm, k.arg)
      [] k.op = "remove_dashboard_connection" -> remove_dashboard_connection(tm, k.arg)
      [] k.op = "broadcast_to_tenant_dashboards" -> broadcast_begin(tm)

TenantCalls ==
    {[op |-> "has_capacity", arg |-> c] : c \in CallIds}
    \cup {[op |-> "remove_session", arg |-> c] : c \in CallIds}
    \cup {[op |-> o, arg |-> d] : o \in {"add_dashboard_connection", "remove_dashboard_connection"},
                                  d \in DashIds}
    \cup {[op |-> "broadcast_to_tenant_dashboards", arg |-> ""]}

TenantUnchanged ==
    UNCHANGED <<ACTIVE_SESSIONS, queues, detached, openai_session, upstream, session, twilio_ws,
                sent, pc, tw_event, oa_cur, executed, inflight, resp, env, cnt, outLog, lastIn,
                readers, busOp, det, relays>>

\* a task calls the manager: it runs on when the lock is free, else it waits in line
TenantCall(k) ==
    /\ tenant.n < MaxTenantOps
    /\ \E tm \in {[tenant EXCEPT !.n = @ + 1]} :
           tenant' = IF LockFree(tm) THEN RunLocked(tm, k)
                     ELSE [tm EXCEPT !.waiters = Append(@, k)]
    /\ TenantUnchanged

\* Lock.release woke the first waiter: it takes the lock and runs on
LockGranted ==
    /\ ~tenant.locked
    /\ tenant.waiters # <<>>
    /\ tenant' = RunLocked([tenant EXCEPT !.waiters = Tail(@)], Head(tenant.waiters))
    /\ TenantUnchanged

\* the send to one dashboard ends, well or not
SendJson(ok) ==
    /\ tenant.bc.on
    /\ tenant' = broadcast_sent(tenant, ok)
    /\ TenantUnchanged

NextTenant ==
    \/ \E k \in TenantCalls : TenantCall(k)
    \/ LockGranted
    \/ \E ok \in BOOLEAN : SendJson(ok)

InitTenant == Init /\ ~env.creds /\ ~env.feedback

SpecTenant == InitTenant /\ [][NextTenant]_vars


\* ------------------------------------------------------------------ claims
Last(q) == q[Len(q)]

\* the entry records a command other than request_user found in a JSON chunk
Detected(e) == e.frame.json /\ e.cmd # None /\ e.cmd[1] # "request_user"
FinalChunk(e) == e.frame.json /\ e.frame.last

\* C1: once send_text has detected a command other than request_user in a chunk
\* that is not final, every later chunk is kept from the telephony socket up to
\* and including the first final chunk.
C1_DroppedUntilFinal ==
    \A i \in 1..Len(outLog) : \A j \in (i + 1)..Len(outLog) :
        ( /\ Detected(outLog[i])
          /\ ~outLog[i].frame.last
          /\ outLog[j].frame.json
          /\ \A k \in (i + 1)..(j - 1) : ~FinalChunk(outLog[k]) )
        => ~outLog[j].fwd

\* a command in a chunk that is not final, then a chunk and a final chunk, both dropped
C1_Witness ==
    /\ Len(outLog) = 3
    /\ Detected(outLog[1]) /\ ~outLog[1].frame.last
    /\ outLog[2].frame.json /\ ~outLog[2].frame.last /\ ~outLog[2].fwd
    /\ FinalChunk(outLog[3]) /\ ~outLog[3].fwd
    /\ sent = <<>>

\* the action of the first bracketed token of a text, known or not
FirstDirective(text) ==
    IF IsNone(CommandReSearch(text)) THEN None
    ELSE Some(SplitToken(Strip(CommandReSearch(text)[1])).action)

\* send_text has just handled, unsuppressed, a chunk whose directive is request_user
RequestUserHandled ==
    /\ Len(outLog') = Len(outLog) + 1
    /\ Last(outLog').frame.json
    /\ ~Last(outLog').supp
    /\ FirstDirective(GetOr(Last(outLog').frame.text, <<>>)) = Some(<<"request_user">>)

OneQueryPublished ==
    \E sid \in CallIds :
        queues' = [queues EXCEPT ![sid] =
                      Some(Append(GetOr(queues[sid], <<>>), Ev("query", sid, Some(<<"code">>))))]

\* C2: every request_user directive the interceptor handles publishes exactly
\* one query event, sets awaiting_user_input, sends exactly one hold frame and
\* calls execute_command not at all.
C2_RequestUserHolds ==
    [][RequestUserHandled =>
          /\ OneQueryPublished
          /\ openai_session'.awaiting_user_input
          /\ sent' = Append(sent, HoldFrame)
          /\ executed' = executed]_vars

\* from_twilio has just read a prompt frame while awaiting_user_input was set
HeldPromptRead ==
    /\ cnt'.in = cnt.in + 1
    /\ lastIn' # None
    /\ lastIn'[1].ev.json
    /\ lastIn'[1].ev.type = "prompt"
    /\ lastIn'[1].awaiting

\* C3: a prompt frame read while awaiting_user_input is set is not written to
\* the model socket and not appended to the history, then or later (the task is
\* left with no send of it under way).
C3_HeldSpeechNotForwarded ==
    [][HeldPromptRead =>
          /\ upstream' = upstream \/ upstream' = Append(upstream, CancelMsg)
          /\ openai_session'.history = openai_session.history
          /\ pc'.tw # "sending"]_vars

C3_Witness ==
    /\ lastIn # None
    /\ lastIn[1].ev.type = "prompt"
    /\ lastIn[1].awaiting
    /\ pc.tw = "recv"
    /\ \A i \in 1..Len(upstream) : upstream[i] # UserItem(T_hi)

\* override_clarification has just answered 200
ClarificationAnswered ==
    /\ Len(resp') = Len(resp) + 1
    /\ Last(resp').op = "clarification"
    /\ Last(resp').status = 200

\* C4: a clarification that succeeds has written the answer to the model socket
\* as a supervisor turn, appends it to the history, leaves awaiting_user_input
\* false and query_prompt None, and puts exactly one query_response event on the
\* call's queue (when the call has one).
C4_ClarificationResolves ==
    [][ClarificationAnswered =>
          /\ \E i \in 1..Len(upstream') : upstream'[i] = SupervisorItem(T_answer)
          /\ openai_session'.history =
                 Append(openai_session.history, [role |-> "supervisor", text |-> T_answer])
          /\ ~openai_session'.awaiting_user_input
          /\ openai_session'.query_prompt = None
          /\ \A c \in CallIds :
                 queues'[c] =
                     IF c = Last(resp').callSid /\ queues[c] # None
                     THEN Some(Append(queues[c][1], Ev("query_response", c, Some(T_answer))))
                     ELSE queues[c]]_vars

C4_Witness ==
    /\ resp # <<>>
    /\ Last(resp) = Answer("clarification", "CA1", 200)
    /\ queues["CA1"] # None
    /\ Last(queues["CA1"][1]) = Ev("query_response", "CA1", Some(T_answer))
    /\ ~openai_session.awaiting_user_input

\* a clarification request for sid has just been taken up
ClarificationRequested(sid) ==
    /\ cnt'.ov = cnt.ov + 1
    /\ \/ /\ Len(resp') = Len(resp) + 1
          /\ Last(resp').op = "clarification"
          /\ Last(resp').callSid = sid
       \/ /\ Len(inflight') = Len(inflight) + 1
          /\ Last(inflight').op = "clarification"
          /\ Last(inflight').callSid = sid

\* C5: a clarification for a registered call whose awaiting_user_input is false
\* is answered 400 and changes nothing.
C5_NoPendingQueryRejected ==
    [][\A sid \in CallIds :
          (ClarificationRequested(sid) /\ sid \in ACTIVE_SESSIONS
              /\ ~openai_session.awaiting_user_input)
          => /\ resp' = Append(resp, Answer("clarification", sid, 400))
             /\ UNCHANGED <<ACTIVE_SESSIONS, queues, detached, openai_session, upstream,
                            session, twilio_ws, sent, executed, inflight>>]_vars

C5_Witness ==
    /\ resp # <<>>
    /\ Last(resp) = Answer("clarification", "CA1", 400)
    /\ "CA1" \in ACTIVE_SESSIONS

\* an override request for sid has just been taken up
OverrideRequested(sid) ==
    /\ cnt'.ov = cnt.ov + 1
    /\ \/ Len(resp') = Len(resp) + 1 /\ Last(resp').callSid = sid
       \/ Len(inflight') = Len(inflight) + 1 /\ Last(inflight').callSid = sid

\* C6: an override for a call that is not in the registry is answered 404 before
\* any command is executed, any event published or any state changed.
C6_NotFoundBeforeEffect ==
    [][\A sid \in CallIds :
          (OverrideRequested(sid) /\ sid \notin ACTIVE_SESSIONS)
          => /\ Len(resp') = Len(resp) + 1
             /\ Last(resp').status = 404
             /\ UNCHANGED <<ACTIVE_SESSIONS, queues, detached, openai_session, upstream,
                            executed, inflight>>]_vars

\* from_openai has just passed the final [[press:1]] turn of a registered call
\* to the interceptor, which was not suppressed
PressTurnRelayed ==
    /\ cnt'.out = cnt.out + 1
    /\ Len(outLog') = Len(outLog) + 1
    /\ Last(outLog').frame.token = Some(T_press)
    /\ Last(outLog').frame.last
    /\ ~Last(outLog').supp
    /\ session.callSid # NoSid

\* C7: a model message with [[press:1]] and last=true that travels from_openai
\* and send_text reaches the caller as no frame, and execute_command is called
\* with press and 1.
C7_PressTurnExecuted ==
    [][PressTurnRelayed =>
          /\ sent' = sent
          /\ Len(executed') = Len(executed) + 1
          /\ Last(executed').action = "press"
          /\ Last(executed').value = Some(<<"1">>)]_vars

\* C8: a failure of the Twilio request inside execute_command does not leave it:
\* no command the relay executes ends the outbound task.
C8_CommandFailureContained ==
    \A i \in 1..Len(executed) :
        (executed[i].by = "relay" /\ executed[i].result = "raise") => pc.oa # "raised:exec"

\* what execute_command returns when it did not apply the command
NotApplied == {"raise", "nocreds", "noop", "notarget"}

\* the command the relay handed to the executor has just ended without being applied
RelayCommandFailed(i) ==
    /\ i \in 1..Len(executed)
    /\ executed[i].by = "relay"
    /\ executed[i].result = "pending"
    /\ executed'[i].result \in NotApplied

\* C9: when a command detected by the relay fails to apply, an event is
\* published on the call's stream on top of the command_executed event that
\* went out before the attempt.
C9_FailureReported ==
    [][\A i \in 1..Len(executed) :
          (RelayCommandFailed(i) /\ queues[executed[i].callSid] # None)
          => /\ queues'[executed[i].callSid] # None
             /\ Len(queues'[executed[i].callSid][1]) > Len(queues[executed[i].callSid][1])]_vars

\* C10: a frame that is not JSON, from the telephony socket or from the model
\* socket, ends neither task.
C10_MalformedFrameDropped == pc.tw # "raised:decode" /\ pc.oa # "raised:decode"

\* C11: once from_openai has left its loop (the model connection closed, or an
\* end or error frame arrived) on a call with a call id, proxy_call finishes and
\* ends the session with no further frame from the telephony side.
C11_UpstreamEndEndsCall ==
    (pc.oa = "done" /\ session.callSid # NoSid) ~> (pc.proxy = "finished")

\* the bus operation op has just been applied to sid
BusApplied(op, sid) == busOp'.n = busOp.n + 1 /\ busOp'.op = op /\ busOp'.callSid = sid

\* in no queue, in _queues or held by a subscriber, does anything follow the sentinel
SentinelLast(items) == \A j \in 1..Len(items) : items[j] = Sentinel => j = Len(items)
NothingBehindSentinel ==
    /\ \A sid \in CallIds : SentinelLast(GetOr(queues[sid], <<>>))
    /\ \A i \in 1..Len(detached) : SentinelLast(detached[i].items)

C13_PublishWithoutQueueIsNoOp ==
    [][\A sid \in CallIds :
          (BusApplied("publish_event", sid) /\ queues[sid] = None)
          => UNCHANGED <<queues, detached, readers>>]_vars

\* publish_event was applied for a call without a queue while another call has one
C13_Witness ==
    /\ busOp.op = "publish_event"
    /\ queues[busOp.callSid] = None
    /\ \E sid \in CallIds : queues[sid] # None /\ queues[sid] # Some(<<>>)

\* the rank of a published event among the publish_event calls
Published(e) == e.type = "custom"
SerialOf(e) == CHOOSE n \in 0..MaxBusOps : e.val = Some(<<ToString(n)>>)
InOrder(q) ==
    \A i \in 1..Len(q) : \A j \in (i + 1)..Len(q) :
        (Published(q[i]) /\ Published(q[j])) => SerialOf(q[i]) < SerialOf(q[j])

\* C14: a subscriber receives the events of its call in the order in which the
\* publish_event calls completed, and what is still queued comes after them.
C14_FifoPerCall ==
    \A k \in DOMAIN readers : InOrder(readers[k].got \o QueueOf(readers[k]))

\* a subscriber has received two published events
C14_Witness ==
    \E k \in DOMAIN readers :
        \E i \in 1..Len(readers[k].got) : \E j \in (i + 1)..Len(readers[k].got) :
            Published(readers[k].got[i]) /\ Published(readers[k].got[j])

\* C15: no event published for one call is on the queue of another call or
\* received by a subscriber of another call.
C15_CallsIsolated ==
    /\ \A sid \in CallIds : \A j \in 1..Len(GetOr(queues[sid], <<>>)) :
           queues[sid][1][j].callSid = sid
    /\ \A i \in 1..Len(detached) : \A j \in 1..Len(detached[i].items) :
           detached[i].items[j] = Sentinel \/ detached[i].items[j].callSid = detached[i].callSid
    /\ \A k \in DOMAIN readers : \A j \in 1..Len(readers[k].got) :
           readers[k].got[j].callSid = readers[k].callSid

\* two subscribers of two calls have each received an event published for their call
C15_Witness ==
    \E k1, k2 \in DOMAIN readers :
        /\ readers[k1].callSid # readers[k2].callSid
        /\ \E j \in 1..Len(readers[k1].got) : Published(readers[k1].got[j])
        /\ \E j \in 1..Len(readers[k2].got) : Published(readers[k2].got[j])

\* C16: two subscribers attached to the same queue before anything was put on
\* it have received the same events once the queue is empty.
C16_BothSubscribersReceive ==
    \A k1, k2 \in DOMAIN readers :
        ( /\ SameQueue(readers[k1], readers[k2])
          /\ readers[k1].early /\ readers[k2].early
          /\ QueueOf(readers[k1]) = <<>> )
        => readers[k1].got = readers[k2].got

\* C17: however often start_session is called for a call, its queue holds at
\* most one session_start event.
C17_StartSessionIdempotent ==
    \A sid \in CallIds :
        Cardinality({j \in 1..Len(GetOr(queues[sid], <<>>)) :
                        queues[sid][1][j].type = "session_start"}) <= 1

\* the bracketed token that opens at position i, and the command it spells
TokenAt(text, i) == SubSeq(text, i + 2, Min({k \in (i + 2)..Len(text) : ClosesAt(text, k)}) - 1)
DirectiveAt(text, i) == SplitToken(Strip(TokenAt(text, i)))
KnownStarts(text) == {i \in MatchStarts(text) : DirectiveAt(text, i).action \in KnownActions}
FirstKnownDirective(text) ==
    IF KnownStarts(text) = {} THEN None
    ELSE Some([action |-> DirectiveAt(text, Min(KnownStarts(text))).action[1],
               value |-> DirectiveAt(text, Min(KnownStarts(text))).value])

\* C18: detect_command returns the first directive of the text whose action is
\* known, also when a bracketed token with an unknown action stands before it.
C18_FirstKnownDirective == det.done => det.out = FirstKnownDirective(det.text)

\* C19: for a text whose first directive is [[request_user:value]],
\* detect_command returns the command request_user with that value.
C19_RequestUserDetected ==
    (det.done /\ FirstDirective(det.text) = Some(<<"request_user">>))
    => det.out = Some([action |-> "request_user",
                       value |-> DirectiveAt(det.text, Min(MatchStarts(det.text))).value])

\* the end override has just answered 200 for sid
EndOverrideSucceeded(sid) ==
    /\ Len(resp') = Len(resp) + 1
    /\ Last(resp') = Answer("end", sid, 200)

\* C20: once the end override has succeeded for a registered call, the call is
\* no longer in ACTIVE_SESSIONS.
C20_EndOverrideUnregisters ==
    [][\A sid \in CallIds :
          (EndOverrideSucceeded(sid) /\ sid \in ACTIVE_SESSIONS) => sid \notin ACTIVE_SESSIONS']_vars

\* the step publishes an assistant_response event
ResponsePublished ==
    \E c \in CallIds :
        /\ queues[c] # None /\ queues'[c] # None
        /\ \E j \in (Len(queues[c][1]) + 1)..Len(queues'[c][1]) :
               queues'[c][1][j].type = "assistant_response"

C22_RelayGoesOnDuringExecute ==
    (pc.oa = "exec" /\ pc.tw = "recv" /\ pc.proxy = "running" /\ Budget)
    => /\ ENABLED (\E ev \in InEvents : TwRecv(ev))
       /\ ENABLED (\E f \in DirectFrames : DirectSend(f))

\* C23: with every admission made as has_capacity followed, when it returned
\* true, by add_session, the tenant never has more sessions than the limit.
C23_SessionsWithinLimit == Cardinality(tenant.sessions) <= MaxConcurrent

\* the connections whose send_json raised during the broadcast
Failed(log) == {log[j].conn : j \in {j \in 1..Len(log) : ~log[j].ok}}
Without(dash, gone) == LET Stays(d) == d \notin gone IN SelectSeq(dash, Stays)

\* C24: a broadcast tries every dashboard connection of the tenant once, in
\* order, whatever the earlier sends did; when it returns, the connections whose
\* send failed are gone and all others are registered as before; from its
\* first send to its return the tenant's call sessions do not change.
C24_BroadcastBestEffort ==
    [][tenant.bc.on =>
          /\ tenant'.sessions = tenant.sessions
          /\ tenant'.bc.on => tenant'.dash = tenant.dash
          /\ ~tenant'.bc.on =>
                 /\ [j \in 1..Len(tenant'.bc.log) |-> tenant'.bc.log[j].conn] = tenant.dash
                 /\ tenant'.dash = Without(tenant.dash, Failed(tenant'.bc.log))]_vars

\* the send to d1 failed, the send to d2 after it succeeded, and d2 alone is left
C24_Witness ==
    /\ ~tenant.bc.on
    /\ tenant.bc.log = <<[conn |-> "d1", ok |-> FALSE], [conn |-> "d2", ok |-> TRUE]>>
    /\ tenant.dash = <<"d2">>
    /\ tenant.sessions # {}

\* the step takes a call out of ACTIVE_SESSIONS
RegistryRemoved == \E c \in CallIds : c \in ACTIVE_SESSIONS /\ c \notin ACTIVE_SESSIONS'
\* the step is an end_session that found the queue of the call
SessionEnded == \E c \in CallIds : queues[c] # None /\ queues'[c] = None
BothTasksDone == pc.tw = "done" /\ pc.oa = "done"

\* C25 as stated: a call leaves the registry, and end_session is invoked for
\* it, only when from_twilio and from_openai have both finished.
C25_ReleasedOnlyAfterJoin ==
    [][(RegistryRemoved \/ SessionEnded) => BothTasksDone]_vars

\* C25: proxy_call takes the call out of the registry and invokes end_session
\* only when from_twilio and from_openai have both finished; an end_session
\* before that is the one of the end override.
C25_RelayReleasesAfterJoin ==
    [][(RegistryRemoved \/ (SessionEnded /\ ~\E sid \in CallIds : EndOverrideSucceeded(sid)))
          => (BothTasksDone /\ pc.proxy = "running" /\ pc'.proxy = "finished")]_vars

\* proxy_call has released a registered call that no override touched
C25_Witness ==
    /\ pc.proxy = "finished" /\ pc.tw = "done" /\ pc.oa = "done"
    /\ session.callSid # NoSid
    /\ session.callSid \notin ACTIVE_SESSIONS
    /\ queues[session.callSid] = None
    /\ resp = <<>>
    /\ detached # <<>> /\ Last(Last(detached).items) = Sentinel

\* the session_start events in a queue
Starts(q) == Cardinality({j \in 1..Len(q) : q[j].type = "session_start"})
\* the step puts a call into ACTIVE_SESSIONS
RegistryInserted == \E c \in CallIds : c \notin ACTIVE_SESSIONS /\ c \in ACTIVE_SESSIONS'
\* the step puts a session_start event on a queue
StartEnqueued ==
    \E c \in CallIds : Starts(GetOr(queues'[c], <<>>)) > Starts(GetOr(queues[c], <<>>))

FreePromptRead ==
    /\ cnt'.in = cnt.in + 1
    /\ lastIn' # None
    /\ lastIn'[1].ev.json
    /\ lastIn'[1].ev.type = "prompt"
    /\ ~lastIn'[1].awaiting
    /\ openai_session.ws = "open"

\* the transcript events the step puts on the queue of call c
NewTranscripts(c) ==
    IF queues[c] = None \/ queues'[c] = None THEN {}
    ELSE {j \in (Len(queues[c][1]) + 1)..Len(queues'[c][1]) : queues'[c][1][j].type = "transcript"}

\* C27: caller speech read while awaiting_user_input is not set is written to
\* the model socket and, when the call has a stream, published as one
\* transcript event; caller speech read while it is set is neither written to
\* the model socket nor published as a transcript event.
C27_TranscriptFollowsForwarding ==
    [][/\ FreePromptRead =>
              /\ upstream' = Append(upstream, UserItem(lastIn'[1].ev.voicePrompt))
              /\ \A c \in CallIds :
                     (session'.callSid = c /\ queues[c] # None) => Cardinality(NewTranscripts(c)) = 1
       /\ HeldPromptRead =>
              /\ upstream' = upstream \/ upstream' = Append(upstream, CancelMsg)
              /\ \A c \in CallIds : NewTranscripts(c) = {}]_vars

\* the gate is enabled and would hold the next text message
GateArmed ==
    /\ openai_session.require_feedback
    /\ ~openai_session.awaiting_feedback
    /\ ~openai_session.skip_next_feedback
\* from_openai takes a message into the gate
GateTaken == pc.oa = "recv" /\ pc'.oa = "gate"

\* C28: while the gate is armed no text message is handed on to the telephony
\* socket (only audio is); a message taken into the gate sets awaiting_feedback
\* and awaiting_user_input, is kept as pending_response, is published as one
\* pending_response event when the call id is known and the call has a queue,
\* and sends one response.cancel upstream; the next thing from_openai writes
\* to the telephony socket is one hold frame, after which it reads on.
C28_GateHoldsTurn ==
    [][/\ (GateArmed /\ pc.oa = "recv" /\ Len(outLog') = Len(outLog) + 1) =>
              Last(outLog').frame.type = "audio"
       /\ GateTaken =>
              /\ GateArmed
              /\ openai_session'.awaiting_feedback /\ openai_session'.awaiting_user_input
              /\ Truthy(openai_session'.pending_response)
              /\ upstream' = Append(upstream, CancelMsg)
              /\ sent' = sent /\ outLog' = outLog
              /\ \A c \in CallIds :
                     queues'[c] = IF session.callSid = c /\ queues[c] # None
                                  THEN Some(Append(queues[c][1],
                                                   Ev("pending_response", c, openai_session'.pending_response)))
                                  ELSE queues[c]
       /\ pc.oa = "gate" =>
              \/ sent' = sent /\ pc'.oa = "gate"
              \/ sent' = Append(sent, HoldFrame) /\ pc'.oa = "recv"]_vars

\* the text "hi" was held: flags set, event published, cancellation sent, and
\* the hold frame is all the caller got
C28_Witness ==
    /\ pc.oa = "recv"
    /\ openai_session.awaiting_feedback /\ openai_session.awaiting_user_input
    /\ openai_session.pending_response = Some(T_hi)
    /\ sent = <<HoldFrame>>
    /\ \E i \in 1..Len(upstream) : upstream[i] = CancelMsg
    /\ session.callSid # NoSid
    /\ queues[session.callSid] # None
    /\ \E j \in 1..Len(queues[session.callSid][1]) :
           queues[session.callSid][1][j] = Ev("pending_response", session.callSid, Some(T_hi))

IsPrefix(a, b) == Len(a) <= Len(b) /\ SubSeq(b, 1, Len(a)) = a
\* the frames of the chunks that send_text passed on, in the order it got them
ForwardedFrames(log) ==
    LET Fwd(e) == e.fwd
        kept == SelectSeq(log, Fwd)
    IN  [j \in 1..Len(kept) |-> kept[j].frame]

\* C29: each direction keeps its order.  from_twilio reads a frame only when
\* it has finished with the one before, and what it writes to the model socket
\* goes behind what is already there, caller speech at the moment its frame is
\* read; the frames on the telephony socket are the forwarded chunks in the
\* order in which from_openai took their messages, each written behind the
\* earlier ones.
C29_OrderKept ==
    [][/\ cnt'.in = cnt.in + 1 => (pc.tw = "recv" /\ tw_event = None)
       /\ IsPrefix(upstream, upstream')
       /\ FreePromptRead => upstream' = Append(upstream, UserItem(lastIn'[1].ev.voicePrompt))
       /\ IsPrefix(sent, sent')
       /\ IsPrefix(outLog, outLog')
       /\ sent' = ForwardedFrames(outLog')]_vars

\* two different frames were forwarded, in the order of their messages, and
\* caller speech was passed to the model
C29_Witness ==
    /\ Len(outLog) = 2 /\ outLog[1].frame # outLog[2].frame
    /\ sent = <<outLog[1].frame, outLog[2].frame>>
    /\ \E i \in 1..Len(upstream) : upstream[i] = UserItem(T_hi)

\* entry i records a command other than request_user that send_text met,
\* unsuppressed, in a chunk marked last
FinalCommand(i) == Detected(outLog[i]) /\ ~outLog[i].supp /\ outLog[i].frame.last

\* C30: a chunk marked last in which send_text, not suppressed, finds a command
\* other than request_user is not written to the telephony socket and leaves
\* the interceptor unsuppressed: once send_text has returned the flag is unset,
\* and the next chunk meets it unset and, when it is JSON without a command, is
\* written to the socket.
C30_FinalCommandStaysNormal ==
    \A i \in 1..Len(outLog) :
        FinalCommand(i) =>
            /\ ~outLog[i].fwd
            /\ (i = Len(outLog) /\ pc.oa = "recv") => ~twilio_ws.suppress
            /\ i < Len(outLog) =>
                   /\ ~outLog[i + 1].supp
                   /\ (outLog[i + 1].frame.json /\ outLog[i + 1].cmd = None) => outLog[i + 1].fwd

\* the press command of a final chunk was executed and the chunk dropped; the
\* command-free chunk after it is the only thing the caller got
C30_Witness ==
    /\ Len(outLog) = 2
    /\ FinalCommand(1) /\ ~outLog[1].fwd
    /\ Len(executed) = 1 /\ executed[1].result = "ok"
    /\ outLog[2].frame.json /\ outLog[2].cmd = None /\ outLog[2].fwd
    /\ sent = <<outLog[2].frame>>

\* the call of the connection is out of the registry and its queue was ended
\* by end_session: session_end and the sentinel are the last things put on it
Released ==
    /\ session.callSid # NoSid
    /\ session.callSid \notin ACTIVE_SESSIONS
    /\ queues[session.callSid] = None
    /\ \E k \in 1..Len(detached) :
           /\ detached[k].callSid = session.callSid
           /\ Len(detached[k].items) >= 2
           /\ detached[k].items[Len(detached[k].items) - 1].type = "session_end"
           /\ Last(detached[k].items) = Sentinel

\* C31: once from_twilio has ended for a registered call, because the telephony
\* socket closed or a disconnect event came, the call eventually leaves the
\* registry and its queue eventually gets session_end and then the sentinel.
C31_TelephonyEndReleases ==
    (pc.tw = "done" /\ session.callSid # NoSid) ~> Released

\* the positions of the session_end events in a queue
Ends(q) == {j \in 1..Len(q) : q[j].type = "session_end"}

\* C32: a queue of a call holds at most one session_end event, and the
\* sentinel comes right behind it.
C32_OneSessionEnd ==
    /\ \A c \in CallIds : queues[c] # None => Ends(queues[c][1]) = {}
    /\ \A k \in 1..Len(detached) :
           /\ Cardinality(Ends(detached[k].items)) <= 1
           /\ \A j \in Ends(detached[k].items) :
                  j < Len(detached[k].items) /\ detached[k].items[j + 1] = Sentinel

\* a clarification for sid has passed line 148 and is suspended in its send
ClarificationUnderWay(sid) ==
    \E i \in 1..Len(inflight) : inflight[i].op = "clarification" /\ inflight[i].callSid = sid

\* C33: a clarification request that comes for a call while another one is
\* still answering the pending query of that call is answered 400 and writes
\* nothing to the model socket.
C33_OneAnswerPerQuery ==
    [][\A sid \in CallIds :
          (ClarificationRequested(sid) /\ sid \in ACTIVE_SESSIONS /\ ClarificationUnderWay(sid))
          => /\ resp' = Append(resp, Answer("clarification", sid, 400))
             /\ upstream' = upstream]_vars

\* C34: when proxy_call is over for a registered call, by return or by an
\* exception of one of its tasks, the call is out of the registry and its
\* queue has been ended.
C34_NoEntryOutlivesRelay ==
    (pc.proxy \in {"finished", "crashed"} /\ session.callSid # NoSid)
    => /\ session.callSid \notin ACTIVE_SESSIONS
       /\ queues[session.callSid] = None

\* entry i is a chunk not marked last in which send_text, not suppressed, found a command
Trigger(i) ==
    /\ outLog[i].frame.json /\ ~outLog[i].supp
    /\ outLog[i].cmd # None /\ ~outLog[i].frame.last
\* the response of trigger i has delivered no final chunk before position j
StillOpen(i, j) == Trigger(i) /\ \A k \in (i + 1)..(j - 1) : ~FinalChunk(outLog[k])

CommandChunkDropped ==
    /\ Len(outLog') = Len(outLog) + 1
    /\ Detected(Last(outLog'))
    /\ ~Last(outLog').supp

\* C36: a chunk is dropped for its command only when the command is handed to
\* execute_command and, the call having a queue, a command_executed event is
\* published, whether or not a call id has been seen on the connection.
C36_DroppedOnlyWhenExecuted ==
    [][CommandChunkDropped =>
          /\ Len(executed') = Len(executed) + 1
          /\ Last(executed').action = Last(outLog').cmd[1]
          /\ \A c \in CallIds :
                 (twilio_ws.call_sid = c /\ queues[c] # None) =>
                     queues'[c] = Some(Append(queues[c][1],
                                              Ev("command_executed", c, Some(<<Last(outLog').cmd[1]>>))))]_vars

\* what from_twilio writes to the model socket for caller speech
CallerItems == {UserItem(ev.voicePrompt) : ev \in {e \in InEvents : e.json /\ e.type = "prompt"}}

\* C37: caller speech goes to the model socket only in the step that reads its
\* frame, and only with awaiting_user_input unset: speech read while the flag
\* is set is not sent then and is kept nowhere to be sent later, whatever
\* clears the flag afterwards; and the flag, once set, is cleared only by a
\* clarification that answers 200.
C37_HeldSpeechDiscarded ==
    [][/\ (Len(upstream') > Len(upstream) /\ Last(upstream') \in CallerItems) => FreePromptRead
       /\ HeldPromptRead => tw_event' = None
       /\ (openai_session.awaiting_user_input /\ ~openai_session'.awaiting_user_input)
              => ClarificationAnswered]_vars

\* speech was read while the flag was set, a clarification has cleared the
\* flag since, and the model socket has no caller speech on it
C37_Witness ==
    /\ lastIn # None /\ lastIn[1].ev.type = "prompt" /\ lastIn[1].awaiting
    /\ ~openai_session.awaiting_user_input
    /\ resp # <<>> /\ Last(resp).op = "clarification" /\ Last(resp).status = 200
    /\ pc.tw = "recv" /\ tw_event = None
    /\ \A i \in 1..Len(upstream) : upstream[i] \notin CallerItems

\* C38: with require_feedback on, a clarification that answers 200 for a turn
\* the gate holds leaves awaiting_feedback unset and pending_response empty,
\* so that the gate takes the next text message again.
C38_GateRearmed ==
    [][(ClarificationAnswered /\ openai_session.require_feedback /\ openai_session.awaiting_feedback)
           => /\ ~openai_session'.awaiting_feedback
              /\ openai_session'.pending_response = None
              /\ GateArmed']_vars

\* end_session has run for the call
Ended(sid) == \E i \in 1..Len(detached) : detached[i].callSid = sid

\* C40: every subscriber of events_ws whose call has ended is eventually handed
\* the sentinel and closes, whenever it subscribed.
C40_SubscribersClose ==
    \A k \in 1..MaxReaders :
        (k \in DOMAIN readers /\ readers[k].open /\ Ended(readers[k].callSid))
            ~> (k \in DOMAIN readers /\ ~readers[k].open)

\* connection c leaves proxy_call in this step
Finishes(c) == ~relays.conn[c].done /\ relays'.conn[c].done

\* C39: when two connections have reported the same call id and one of them
\* finishes while the other is still running, the call id stays in
\* ACTIVE_SESSIONS, mapped to the session of the running connection, and the
\* call keeps its event queue.
C39_FirstFinishKeepsOther ==
    [][\A c, o \in Conns :
          (/\ c # o
           /\ Finishes(c)
           /\ relays.conn[c].callSid # NoSid
           /\ relays.conn[o].callSid = relays.conn[c].callSid
           /\ ~relays.conn[o].done)
          => /\ relays.conn[o].callSid \in ACTIVE_SESSIONS'
             /\ relays'.owner[relays.conn[o].callSid] = o
             /\ queues'[relays.conn[o].callSid] # None]_vars


====
